---- MODULE Spec2Model ----
(***************************************************************************)
(* Order service (src/src/app.js): an Express application instrumented     *)
(* with OpenTelemetry.  Every handler is an async function that suspends   *)
(* at the setTimeout of a simulated call; Node runs one callback at a time *)
(* and drains the promise continuations before the next callback, so one   *)
(* action of this model is one event-loop task: the arrival of a request,  *)
(* or the firing of one timer together with the continuation it resumes.   *)
(* Pending timers of different requests fire in any order.  The clock is   *)
(* kept per request, as the time since its startTime: when a timer fires,  *)
(* its delay has passed since it was armed.                                *)
(***************************************************************************)
EXTENDS Integers, Sequences, FiniteSets, Bags, TLC

\* ---------------------------------------------------------------- bounds
MaxCreates == 2                    \* POST /orders requests in one run
MaxReads == 1                      \* GET /orders and GET /orders/:orderId requests
Creates == 1..MaxCreates           \* numbered by arrival among the creates
Reads == (MaxCreates + 1)..(MaxCreates + MaxReads)
Reqs == Creates \cup Reads

\* Samples of the random draws; delays in abstract clock units.
OrderIds == {"10000", "10001"}     \* String(floor(random*90000)+10000)
Amounts(r) == {1000 * r}           \* amount in cents, within 10.00 .. 500.00;
                                   \* the sample differs from request to request
DbDelays == {1}                    \* durationRange = [10, 50] ms
NormalDelays == {2}                \* 50 .. 200 ms
SlowDelays == {3}                  \* 1000 .. 3000 ms: above the normal range

VARIABLES
  req,                  \* per request: kind, position, locals of the handler;
                        \* elapsed = Date.now() - startTime at its last task,
                        \* timer = delay of its pending setTimeout (0: none)
  spans,                \* per request: the spans it created, in creation order
  ordersDb,             \* const ordersDb = {}
  ordersInProgress,     \* UpDownCounter orders_in_progress
  ordersCreated,        \* Counter orders_created_total, per status label
  orderProcessingTime,  \* Histogram: the recorded values
  calls                 \* per request: how often it called each instrument / the store

vars == <<req, spans, ordersDb, ordersInProgress, ordersCreated,
          orderProcessingTime, calls>>

\* A span is named by the request that created it and its rank there.
NoSpan == <<0, 0>>

NoResp == [code |-> 0, error |-> "", orders |-> {}]

IdleReq == [kind |-> "none", pc |-> "idle", orderId |-> "", amount |-> 0,
            elapsed |-> 0, root |-> NoSpan, ctx |-> NoSpan, step |-> NoSpan,
            timer |-> 0, resp |-> NoResp]

NoCalls == [inc |-> 0, dec |-> 0, record |-> 0, success |-> 0, error |-> 0,
            put |-> 0]

Init ==
  /\ req = [r \in Reqs |-> IdleReq]
  /\ spans = [r \in Reqs |-> << >>]
  /\ ordersDb = << >>
  /\ ordersInProgress = 0
  /\ ordersCreated = [success |-> 0, error |-> 0]
  /\ orderProcessingTime = EmptyBag
  /\ calls = [r \in Reqs |-> NoCalls]

\* ---------------------------------------------------------------- tracer
\* tracer.startActiveSpan(name, fn): a new span, child of the active span.
NewSpan(name, parent) ==
  [name |-> name, parent |-> parent, attrs |-> {}, status |-> "UNSET",
   message |-> "", endCalls |-> 0, lateOps |-> 0]

StartSpan(ss, name, parent) == Append(ss, NewSpan(name, parent))

\* span.setAttribute(key, value): ignored (and counted) once the span has ended.
SetAttribute(ss, i, key) ==
  [ss EXCEPT ![i] = IF @.endCalls > 0
                      THEN [@ EXCEPT !.lateOps = @ + 1]
                      ELSE [@ EXCEPT !.attrs = @ \cup {key}]]

\* span.setStatus({code, message})
SetStatus(ss, i, code, msg) ==
  [ss EXCEPT ![i] = IF @.endCalls > 0
                      THEN [@ EXCEPT !.lateOps = @ + 1]
                      ELSE [@ EXCEPT !.status = code, !.message = msg]]

\* span.end()
SpanEndTwice(ss, i) == [ss EXCEPT ![i].endCalls = @ + 2]

SpanEnd(ss, i) == [ss EXCEPT ![i].endCalls = @ + 1]

\* The active span seen by the continuation of request r after an await.
\* The SDK started in tracing.js carries the context along each async chain,
\* so the continuation runs in the context that was active where it awaited.
ContextLost(r) == NoSpan

ContextSpan(r) == req[r].ctx

\* ---------------------------------------------------------------- store
Put(db, k, v) == [x \in DOMAIN db \cup {k} |-> IF x = k THEN v ELSE db[x]]

\* Object.values(ordersDb)
ValuesFirstOnly(db) ==
  IF DOMAIN db = {} THEN {} ELSE {db[CHOOSE k \in DOMAIN db : TRUE]}

Values(db) == {db[k] : k \in DOMAIN db}

\* ---------------------------------------------------------------- simulated calls
\* simulateDbQuery(queryType), up to the arming of the timer: the db span is
\* opened under the active span and tagged.
DbQueryOpen(ss, queryType, parent) ==
  LET i  == Len(ss) + 1
      s1 == StartSpan(ss, queryType, parent)
      s2 == SetAttribute(s1, i, "db.system")
  IN  SetAttribute(s2, i, "db.operation")

\* simulateDbQuery, the timer callback: span.end(); resolve().
DbQueryResolveOnly(ss, i) == ss

DbQueryClose(ss, i) == SpanEnd(ss, i)

\* simulatePaymentProcessing(orderId, amount), up to the arming of the timer.
PaymentOpen(ss, parent, isSlow) ==
  LET i  == Len(ss) + 1
      s1 == StartSpan(ss, "payment.process", parent)
      s2 == SetAttribute(s1, i, "payment.order_id")
      s3 == SetAttribute(s2, i, "payment.amount")
  IN  IF isSlow THEN SetAttribute(s3, i, "payment.slow") ELSE s3

\* The delay of the payment call: slow range when isSlow, else normal range.
PaymentDelaysNormalOnly(isSlow) == NormalDelays

PaymentDelays(isSlow) == IF isSlow THEN SlowDelays ELSE NormalDelays

\* reject(new Error("Payment declined")): the message of the error thrown
\* by the await of the payment step.
PaymentError == "Payment declined"

\* simulatePaymentProcessing, the timer callback when the draw is a failure.
PaymentFailNoStatus(ss, i) == SpanEnd(ss, i)

PaymentFail(ss, i) ==
  SpanEnd(SetStatus(ss, i, "ERROR", "Payment declined"), i)

\* setTimeout(fn, delay): a pending timer fires, once.
TimerNeverFires(r) == FALSE

TimerDue(r) == req[r].timer > 0

\* Date.now() - startTime in the task run by the pending timer of r.
Elapsed(r) == req[r].elapsed + req[r].timer

\* ---------------------------------------------------------------- arrivals
\* Requests of one sort arrive in the order of their numbers.
NextToArrive(r, sort) ==
  /\ req[r].pc = "idle"
  /\ \A q \in sort : q < r => req[q].pc # "idle"

\* ---------------------------------------------------------------- POST /orders
\* The order written at the end of the pipeline.
OrderRecordPending(oid, amt) == [id |-> oid, amount |-> amt, status |-> "pending"]

OrderRecord(oid, amt) == [id |-> oid, amount |-> amt, status |-> "confirmed"]

\* ordersCreated.add(1, { status: "success" })
SuccessCounter(c) == [c EXCEPT !.success = @ + 1]

\* catch (err): ordersCreated.add(1, { status: "error" })
CatchCounterSuccessLabel(c) == [c EXCEPT !.success = @ + 1]

CatchCounter(c) == [c EXCEPT !.error = @ + 1]

\* catch (err): res.status(500).json({ error: err.message })
CatchResponseGeneric(msg) ==
  [code |-> 500, error |-> "Internal Server Error", orders |-> {}]

CatchResponse(msg) == [code |-> 500, error |-> msg, orders |-> {}]

\* finally: ordersInProgress.add(-1)
FinallyGaugeTwice(g) == g - 2

FinallyGaugeSkipped(g) == g

FinallyGauge(g) == g - 1

\* finally: duration = (Date.now() - startTime) / 1000, kept in clock units
\* (dividing by the positive constant 1000 keeps sign and order).
DurationReversed(r) == 0 - Elapsed(r)

Duration(r) == Elapsed(r)

\* finally: orderProcessingTime.record(duration)
FinallyRecord(h, r) == h (+) SetToBag({Duration(r)})

\* What request r added to the instruments and the store in this step.
Account(r) ==
  calls' = [calls EXCEPT
              ![r].dec = @ + (ordersInProgress - ordersInProgress'),
              ![r].record = @ + (BagCardinality(orderProcessingTime')
                                   - BagCardinality(orderProcessingTime)),
              ![r].success = @ + (ordersCreated'.success - ordersCreated.success),
              ![r].error = @ + (ordersCreated'.error - ordersCreated.error),
              ![r].put = @ + (IF ordersDb' = ordersDb THEN 0 ELSE 1)]

\* Entry of the handler up to the first suspension (await of check_inventory).
PostOrders(r) ==
  /\ NextToArrive(r, Creates)
  /\ \E oid \in OrderIds, amt \in Amounts(r), d \in DbDelays :
       LET root == <<r, 1>>
           s1 == StartSpan(spans[r], "create_order", NoSpan)
           s2 == SetAttribute(s1, 1, "order.id")
           s3 == SetAttribute(s2, 1, "order.amount")
           s4 == DbQueryOpen(s3, "db.check_inventory", root)
       IN  /\ spans' = [spans EXCEPT ![r] = s4]
           /\ req' = [req EXCEPT ![r] =
                        [@ EXCEPT !.kind = "create", !.pc = "check_inventory",
                                  !.orderId = oid, !.amount = amt,
                                  !.elapsed = 0, !.root = root,
                                  !.ctx = root, !.step = <<r, Len(s4)>>,
                                  !.timer = d]]
  /\ ordersInProgress' = ordersInProgress + 1
  /\ calls' = [calls EXCEPT ![r].inc = @ + (ordersInProgress' - ordersInProgress)]
  /\ UNCHANGED <<ordersDb, ordersCreated, orderProcessingTime>>

\* Timer of check_inventory fires: span.end(), resolve(); the handler resumes
\* and calls simulateDbQuery("insert_order").
InventoryChecked(r) ==
  /\ req[r].pc = "check_inventory"
  /\ TimerDue(r)
  /\ \E d \in DbDelays :
       LET s1 == DbQueryClose(spans[r], req[r].step[2])
           s2 == DbQueryOpen(s1, "db.insert_order", ContextSpan(r))
       IN  /\ spans' = [spans EXCEPT ![r] = s2]
           /\ req' = [req EXCEPT ![r].pc = "insert_order",
                                 ![r].step = <<r, Len(s2)>>,
                                 ![r].timer = d,
                                 ![r].elapsed = Elapsed(r)]
  /\ UNCHANGED <<ordersDb, ordersInProgress, ordersCreated,
                 orderProcessingTime, calls>>

\* Timer of insert_order fires; the handler resumes and calls
\* simulatePaymentProcessing, which draws isSlow and the delay.
OrderInserted(r) ==
  /\ req[r].pc = "insert_order"
  /\ TimerDue(r)
  /\ \E isSlow \in BOOLEAN :
       \E d \in PaymentDelays(isSlow) :
         LET s1 == DbQueryClose(spans[r], req[r].step[2])
             s2 == PaymentOpen(s1, ContextSpan(r), isSlow)
         IN  /\ spans' = [spans EXCEPT ![r] = s2]
             /\ req' = [req EXCEPT ![r].pc = "payment",
                                   ![r].step = <<r, Len(s2)>>,
                                   ![r].timer = d,
                                 ![r].elapsed = Elapsed(r)]
  /\ UNCHANGED <<ordersDb, ordersInProgress, ordersCreated,
                 orderProcessingTime, calls>>

\* The payment call not awaited: its rejection stops nothing and the
\* pipeline goes on to update_order_status.
PaymentDeclinedUnawaited(r) ==
  /\ req[r].pc = "payment"
  /\ TimerDue(r)
  /\ \E d \in DbDelays :
       LET s1 == PaymentFail(spans[r], req[r].step[2])
           s2 == DbQueryOpen(s1, "db.update_order_status", ContextSpan(r))
       IN  /\ spans' = [spans EXCEPT ![r] = s2]
           /\ req' = [req EXCEPT ![r].pc = "update_order_status",
                                 ![r].step = <<r, Len(s2)>>,
                                 ![r].timer = d,
                                 ![r].elapsed = Elapsed(r)]
  /\ UNCHANGED <<ordersDb, ordersInProgress, ordersCreated,
                 orderProcessingTime, calls>>

\* Timer of payment.process fires and the failure draw is a failure: the span
\* is marked ERROR and ended, the promise rejects, the await in the
\* create_order callback throws (its span.end() is skipped), and the handler
\* runs catch and finally.
PaymentDeclined(r) ==
  /\ req[r].pc = "payment"
  /\ TimerDue(r)
  /\ spans' = [spans EXCEPT ![r] = PaymentFail(spans[r], req[r].step[2])]
  /\ ordersCreated' = CatchCounter(ordersCreated)
  /\ req' = [req EXCEPT ![r].pc = "error", ![r].timer = 0,
                        ![r].elapsed = Elapsed(r),
                        ![r].resp = CatchResponse(PaymentError)]
  /\ ordersInProgress' = FinallyGauge(ordersInProgress)
  /\ orderProcessingTime' = FinallyRecord(orderProcessingTime, r)
  /\ UNCHANGED ordersDb
  /\ Account(r)

\* Timer of payment.process fires and the failure draw is a success: the span
\* ends, the handler resumes and calls simulateDbQuery("update_order_status").
PaymentAccepted(r) ==
  /\ req[r].pc = "payment"
  /\ TimerDue(r)
  /\ \E d \in DbDelays :
       LET s1 == SpanEnd(spans[r], req[r].step[2])
           s2 == DbQueryOpen(s1, "db.update_order_status", ContextSpan(r))
       IN  /\ spans' = [spans EXCEPT ![r] = s2]
           /\ req' = [req EXCEPT ![r].pc = "update_order_status",
                                 ![r].step = <<r, Len(s2)>>,
                                 ![r].timer = d,
                                 ![r].elapsed = Elapsed(r)]
  /\ UNCHANGED <<ordersDb, ordersInProgress, ordersCreated,
                 orderProcessingTime, calls>>

\* Timer of update_order_status fires: the order is stored, counted and
\* logged, the root span ends, 201 is sent, then finally runs.
StatusUpdated(r) ==
  /\ req[r].pc = "update_order_status"
  /\ TimerDue(r)
  /\ LET s1 == DbQueryClose(spans[r], req[r].step[2])
         s2 == SpanEnd(s1, req[r].root[2])
     IN  spans' = [spans EXCEPT ![r] = s2]
  /\ ordersDb' = Put(ordersDb, req[r].orderId,
                     OrderRecord(req[r].orderId, req[r].amount))
  /\ ordersCreated' = SuccessCounter(ordersCreated)
  /\ req' = [req EXCEPT ![r].pc = "confirmed", ![r].timer = 0,
                        ![r].elapsed = Elapsed(r),
                        ![r].resp = [code |-> 201, error |-> "",
                                     orders |-> {ordersDb'[req[r].orderId]}]]
  /\ ordersInProgress' = FinallyGauge(ordersInProgress)
  /\ orderProcessingTime' = FinallyRecord(orderProcessingTime, r)
  /\ Account(r)

\* ---------------------------------------------------------------- GET /orders
GetOrders(r) ==
  /\ NextToArrive(r, Reads)
  /\ \E d \in DbDelays :
       LET root == <<r, 1>>
           s1 == StartSpan(spans[r], "list_orders", NoSpan)
           s2 == DbQueryOpen(s1, "db.select_all_orders", root)
       IN  /\ spans' = [spans EXCEPT ![r] = s2]
           /\ req' = [req EXCEPT ![r] =
                        [@ EXCEPT !.kind = "list", !.pc = "select_all_orders",
                                  !.root = root, !.ctx = root,
                                  !.step = <<r, Len(s2)>>,
                                  !.timer = d]]
  /\ UNCHANGED <<ordersDb, ordersInProgress, ordersCreated,
                 orderProcessingTime, calls>>

OrdersListed(r) ==
  /\ req[r].pc = "select_all_orders"
  /\ TimerDue(r)
  /\ LET s1 == DbQueryClose(spans[r], req[r].step[2])
         s2 == SpanEnd(s1, req[r].root[2])
     IN  spans' = [spans EXCEPT ![r] = s2]
  /\ req' = [req EXCEPT ![r].pc = "done", ![r].timer = 0,
                        ![r].resp = [code |-> 200, error |-> "",
                                     orders |-> Values(ordersDb)]]
  /\ UNCHANGED <<ordersDb, ordersInProgress, ordersCreated,
                 orderProcessingTime, calls>>

\* ---------------------------------------------------------------- GET /orders/:orderId
GetOrderById(r) ==
  /\ NextToArrive(r, Reads)
  /\ \E oid \in OrderIds, d \in DbDelays :
       LET root == <<r, 1>>
           s1 == StartSpan(spans[r], "get_order", NoSpan)
           s2 == SetAttribute(s1, 1, "order.id")
           s3 == DbQueryOpen(s2, "db.select_order", root)
       IN  /\ spans' = [spans EXCEPT ![r] = s3]
           /\ req' = [req EXCEPT ![r] =
                        [@ EXCEPT !.kind = "get", !.pc = "select_order",
                                  !.orderId = oid,
                                  !.root = root, !.ctx = root,
                                  !.step = <<r, Len(s3)>>,
                                  !.timer = d]]
  /\ UNCHANGED <<ordersDb, ordersInProgress, ordersCreated,
                 orderProcessingTime, calls>>

OrderFetched(r) ==
  /\ req[r].pc = "select_order"
  /\ TimerDue(r)
  /\ LET s1 == DbQueryClose(spans[r], req[r].step[2])
         s2 == SpanEnd(s1, req[r].root[2])
     IN  spans' = [spans EXCEPT ![r] = s2]
  /\ req' = [req EXCEPT ![r].pc = "done", ![r].timer = 0,
                        ![r].resp =
                          IF req[r].orderId \in DOMAIN ordersDb
                            THEN [code |-> 200, error |-> "",
                                  orders |-> {ordersDb[req[r].orderId]}]
                            ELSE [code |-> 404, error |-> "Order not found",
                                  orders |-> {}]]
  /\ UNCHANGED <<ordersDb, ordersInProgress, ordersCreated,
                 orderProcessingTime, calls>>

\* ---------------------------------------------------------------- event loop
Terminal(r) == req[r].pc \in {"confirmed", "error", "done"}

Waiting(r) == req[r].pc # "idle" /\ ~Terminal(r)

\* The tasks of POST /orders.
CreateNext ==
  \/ \E r \in Creates : PostOrders(r)
  \/ \E r \in Creates : InventoryChecked(r)
  \/ \E r \in Creates : OrderInserted(r)
  \/ \E r \in Creates : PaymentDeclined(r)
  \/ \E r \in Creates : PaymentAccepted(r)
  \/ \E r \in Creates : StatusUpdated(r)

Next ==
  \/ CreateNext
  \/ \E r \in Reads : GetOrders(r)
  \/ \E r \in Reads : OrdersListed(r)
  \/ \E r \in Reads : GetOrderById(r)
  \/ \E r \in Reads : OrderFetched(r)

Spec == Init /\ [][Next]_vars

\* The create-order traffic alone, where every armed timer eventually fires.
\* The list and get handlers share no timer and no promise with a
\* create-order request and never write ordersDb or an instrument, so they
\* cannot enable, disable or delay a step of the pipeline.
FairSpec ==
  /\ Init
  /\ [][CreateNext]_vars
  /\ \A r \in Creates :
       /\ WF_vars(InventoryChecked(r))
       /\ WF_vars(OrderInserted(r))
       /\ WF_vars(PaymentDeclined(r) \/ PaymentAccepted(r))
       /\ WF_vars(StatusUpdated(r))

TypeOK ==
  /\ ordersInProgress \in Int
  /\ DOMAIN ordersDb \subseteq OrderIds

\* ---------------------------------------------------------------- properties
Failed(r) == req[r].pc = "error"

Confirmed(r) == req[r].pc = "confirmed"

Ended(sp) == sp.endCalls > 0

AllEnded(r) == \A i \in 1..Len(spans[r]) : Ended(spans[r][i])

\* C1: every create-order request that has completed, confirmed or failed,
\* added +1 to ordersInProgress once and -1 once (a request still in flight
\* only the +1), and whenever no create-order request is in flight the gauge
\* is back at its initial value.
C1_GaugeNetZero ==
  /\ \A r \in Creates :
       /\ Terminal(r) => calls[r].inc = 1 /\ calls[r].dec = 1
       /\ Waiting(r) => calls[r].inc = 1 /\ calls[r].dec = 0
  /\ (\A r \in Creates : ~Waiting(r)) => ordersInProgress = 0

C1_Witness ==
  \E r, q \in Creates :
    Confirmed(r) /\ Failed(q) /\ ordersInProgress = 0

\* C2: once a request has completed, every span it created, the root span
\* included, has been ended.
C2_NoSpanLeftOpen == \A r \in Reqs : Terminal(r) => AllEnded(r)

\* C3: after a payment failure the root span create_order has status ERROR.
C3_RootSpanError ==
  \A r \in Creates : Failed(r) => spans[r][1].status = "ERROR"

\* C4: a request whose payment failed wrote nothing to the store (its
\* identifier is absent unless another request confirmed the same one),
\* added 1 exactly once under status=error and never under status=success.
C4_FailedRequest ==
  /\ \A r \in Creates :
       Failed(r) =>
         /\ calls[r].put = 0
         /\ calls[r].error = 1
         /\ calls[r].success = 0
         /\ (\A q \in Creates : Confirmed(q) => req[q].orderId # req[r].orderId)
              => req[r].orderId \notin DOMAIN ordersDb
  /\ ordersCreated.error = Cardinality({r \in Creates : Failed(r)})

C4_Witness ==
  \E r \in Creates :
    /\ Failed(r)
    /\ req[r].orderId \notin DOMAIN ordersDb
    /\ ordersCreated = [success |-> 0, error |-> 1]

\* C5: a request whose four steps succeeded wrote the store once, the record
\* it stored (and returned) under its identifier has its identifier, its
\* amount and status confirmed, and it added 1 exactly once under
\* status=success and never under status=error.
C5_ConfirmedRequest ==
  /\ \A r \in Creates :
       Confirmed(r) =>
         /\ calls[r].put = 1
         /\ calls[r].success = 1
         /\ calls[r].error = 0
         /\ req[r].orderId \in DOMAIN ordersDb
         /\ ordersDb[req[r].orderId].status = "confirmed"
         /\ req[r].resp.orders =
              {[id |-> req[r].orderId, amount |-> req[r].amount,
                status |-> "confirmed"]}
  /\ ordersCreated.success = Cardinality({r \in Creates : Confirmed(r)})

C5_Witness ==
  \E r \in Creates :
    /\ Confirmed(r)
    /\ ordersDb[req[r].orderId].amount = req[r].amount
    /\ ordersCreated = [success |-> 1, error |-> 0]

\* C6: every completed create-order request recorded exactly one value in
\* the processing-time histogram, a request in flight none, and no recorded
\* value is negative.
C6_HistogramOnce ==
  /\ \A r \in Creates :
       /\ Terminal(r) => calls[r].record = 1
       /\ ~Terminal(r) => calls[r].record = 0
  /\ BagCardinality(orderProcessingTime)
       = Cardinality({r \in Creates : Terminal(r)})
  /\ \A v \in BagToSet(orderProcessingTime) : v >= 0

C6_Witness ==
  /\ \E r, q \in Creates : Confirmed(r) /\ Failed(q)
  /\ BagCardinality(orderProcessingTime) = 2
  /\ \A v \in BagToSet(orderProcessingTime) : v > 0

\* C7: an order, once stored under an identifier, stays in the store under
\* that identifier with the same record in every later state.
C7_StoreNeverOverwritten ==
  [][\A k \in DOMAIN ordersDb :
       k \in DOMAIN ordersDb' /\ ordersDb'[k] = ordersDb[k]]_vars

\* C8: within one create-order request the step spans are created in the
\* order check_inventory, insert_order, payment.process, update_order_status,
\* and every step span but the latest has ended: a step is never started
\* before the one before it has ended.
StepNames ==
  <<"db.check_inventory", "db.insert_order", "payment.process",
    "db.update_order_status">>

C8_StepsSequential ==
  \A r \in Creates :
    /\ Len(spans[r]) <= 1 + Len(StepNames)
    /\ \A i \in 2..Len(spans[r]) :
         /\ spans[r][i].name = StepNames[i - 1]
         /\ i < Len(spans[r]) => Ended(spans[r][i])

C8_Witness ==
  \E r, q \in Creates :
    /\ r # q
    /\ req[r].pc = "update_order_status"
    /\ req[q].pc = "insert_order"

\* C9: whenever create-order requests are in flight, eventually every one
\* that has started has reached confirmed or error and has run its exit
\* cleanup (gauge decrement and histogram record).
C9_CreateTerminates ==
  \A r \in Creates :
    (req[r].pc # "idle")
      ~> ((Confirmed(r) \/ Failed(r)) /\ calls[r].dec = 1 /\ calls[r].record = 1)

C9_Witness ==
  \E r, q \in Creates :
    /\ Failed(r) /\ calls[r].dec = 1 /\ calls[r].record = 1
    /\ Confirmed(q) /\ calls[q].dec = 1 /\ calls[q].record = 1

\* C10: every step span has as parent the root span of the request that
\* created it, also when the steps of several requests interleave.
C10_ParentIsOwnRoot ==
  \A r \in Reqs :
    \A i \in 2..Len(spans[r]) : spans[r][i].parent = <<r, 1>>

C10_Witness ==
  \E r, q \in Reqs :
    /\ r # q
    /\ Waiting(r) /\ Waiting(q)
    /\ Len(spans[r]) >= 4 /\ Len(spans[q]) >= 3

\* C11: whenever the root span of a request has ended, every step span the
\* request created has ended too, so no step span ends after its root.
C11_ChildrenEndFirst ==
  \A r \in Reqs :
    (Len(spans[r]) >= 1 /\ Ended(spans[r][1])) => AllEnded(r)

C11_Witness ==
  \E r \in Creates, q \in Reads :
    /\ Confirmed(r) /\ Ended(spans[r][1]) /\ Len(spans[r]) = 5
    /\ req[q].pc = "done" /\ Ended(spans[q][1]) /\ Len(spans[q]) = 2

C13_ReadsFrame ==
  [][\A r \in Reads :
       /\ (req[r].pc = "select_all_orders" /\ req'[r].pc = "done")
            => req'[r].resp.orders = {ordersDb[k] : k \in DOMAIN ordersDb}
       /\ req'[r] # req[r] => ordersDb' = ordersDb]_vars

C13_Witness ==
  \E g \in Reads :
    /\ req[g].kind = "list" /\ req[g].pc = "done"
    /\ DOMAIN ordersDb = OrderIds
    /\ {o.id : o \in req[g].resp.orders} = OrderIds
    /\ \A r \in Creates : Confirmed(r)

\* The number of simulated calls a request has invoked when it is at pc.
CallsInvoked(pc) ==
  CASE pc = "idle" -> 0
    [] pc \in {"check_inventory", "select_all_orders", "select_order", "done"} -> 1
    [] pc = "insert_order" -> 2
    [] pc \in {"payment", "error"} -> 3
    [] pc \in {"update_order_status", "confirmed"} -> 4

\* C14: every simulated call a request has invoked has opened exactly one
\* span; the span of the call whose delay is running is open, the span of a
\* call whose delay has completed has been ended exactly once; the payment
\* span has status ERROR with message "Payment declined" exactly when the
\* failure draw was a failure, and every other step span has no status.
C14_CallSpans ==
  \A r \in Reqs :
    /\ Len(spans[r]) = (IF req[r].pc = "idle" THEN 0 ELSE 1) + CallsInvoked(req[r].pc)
    /\ \A i \in 2..Len(spans[r]) :
         /\ spans[r][i].endCalls =
              IF Waiting(r) /\ i = Len(spans[r]) THEN 0 ELSE 1
         /\ IF spans[r][i].name = "payment.process" /\ Failed(r)
              THEN spans[r][i].status = "ERROR"
                   /\ spans[r][i].message = "Payment declined"
              ELSE spans[r][i].status = "UNSET" /\ spans[r][i].message = ""

C14_Witness ==
  \E r, q \in Creates :
    /\ Failed(r) /\ spans[r][4].status = "ERROR" /\ spans[r][4].endCalls = 1
    /\ req[q].pc = "payment" /\ spans[q][4].endCalls = 0
    /\ spans[q][3].endCalls = 1

Least(S) == CHOOSE x \in S : \A y \in S : x <= y

SlowDrawn(r) == "payment.slow" \in spans[r][4].attrs

\* C15: when the payment call is made both values of the slow draw are
\* possible; whatever the slow draw was, both values of the failure draw are
\* possible when the timer fires (so all four combinations occur); the delay
\* armed is from the slow range exactly when the slow draw was slow; and a
\* failure is signalled only once that delay has passed on top of the two
\* db delays before it.
C15_SlowFailIndependent ==
  \A r \in Creates :
    /\ req[r].pc = "insert_order" =>
         /\ ENABLED (OrderInserted(r) /\ "payment.slow" \in spans'[r][4].attrs)
         /\ ENABLED (OrderInserted(r) /\ "payment.slow" \notin spans'[r][4].attrs)
    /\ req[r].pc = "payment" =>
         /\ ENABLED PaymentDeclined(r)
         /\ ENABLED PaymentAccepted(r)
         /\ req[r].timer \in (IF SlowDrawn(r) THEN SlowDelays ELSE NormalDelays)
    /\ Failed(r) =>
         req[r].elapsed >=
           2 * Least(DbDelays)
             + Least(IF SlowDrawn(r) THEN SlowDelays ELSE NormalDelays)

C15_Witness ==
  \E r, q \in Creates :
    /\ Failed(r) /\ SlowDrawn(r)
    /\ req[r].elapsed >= 2 * Least(DbDelays) + Least(SlowDelays)
    /\ Confirmed(q) /\ ~SlowDrawn(q)

\* C17: no db step span ever carries an error; a request is in the error
\* state exactly when its payment span is marked ERROR, and then the payment
\* span is its last span (update_order_status was never started), it has
\* written no order and counted no success, and no step of it is enabled any
\* more.
C17_ErrorOnlyFromPayment ==
  \A r \in Creates :
    /\ \A i \in 2..Len(spans[r]) :
         spans[r][i].name # "payment.process" => spans[r][i].status = "UNSET"
    /\ Failed(r) <=> (Len(spans[r]) >= 4 /\ spans[r][4].status = "ERROR")
    /\ Failed(r) =>
         /\ Len(spans[r]) = 4
         /\ spans[r][4].name = "payment.process"
         /\ calls[r].put = 0 /\ calls[r].success = 0
         /\ ~ENABLED (InventoryChecked(r) \/ OrderInserted(r)
                        \/ PaymentAccepted(r) \/ StatusUpdated(r))

C17_Witness ==
  \E r, q \in Creates :
    /\ Failed(r) /\ Len(spans[r]) = 4 /\ spans[r][4].status = "ERROR"
    /\ Confirmed(q) /\ Len(spans[q]) = 5

\* C18: every record in the store has status confirmed and an id equal to
\* its key, and was written by a request that is confirmed, whose four step
\* spans have all ended and whose payment was not declined; every order a
\* list or get request returned is such a record.
C18_StoredOrdersComplete ==
  /\ \A k \in DOMAIN ordersDb :
       /\ ordersDb[k].status = "confirmed"
       /\ ordersDb[k].id = k
       /\ \E r \in Creates :
            /\ Confirmed(r)
            /\ req[r].orderId = k
            /\ req[r].amount = ordersDb[k].amount
            /\ Len(spans[r]) = 5
            /\ \A i \in 2..5 : Ended(spans[r][i])
            /\ spans[r][4].status # "ERROR"
  /\ \A g \in Reads :
       \A o \in req[g].resp.orders :
         /\ o.status = "confirmed"
         /\ \E r \in Creates :
              Confirmed(r) /\ req[r].orderId = o.id /\ req[r].amount = o.amount
         /\ req[g].kind = "get" => o.id = req[g].orderId

C18_Witness ==
  \E g \in Reads, r, q \in Creates :
    /\ req[g].pc = "done" /\ req[g].resp.orders # {}
    /\ Confirmed(r) /\ req[r].orderId \in DOMAIN ordersDb
    /\ req[q].pc \in {"payment", "update_order_status"}
    /\ req[q].orderId \notin DOMAIN ordersDb

\* C19: end() has been called at most once on every span, and no
\* setAttribute or setStatus call was made on a span after its end().
C19_SpanDiscipline ==
  \A r \in Reqs :
    \A i \in 1..Len(spans[r]) :
      spans[r][i].endCalls <= 1 /\ spans[r][i].lateOps = 0

C19_Witness ==
  \E r, q \in Creates, g \in Reads :
    /\ Failed(r) /\ spans[r][4].endCalls = 1 /\ spans[r][4].status = "ERROR"
    /\ Confirmed(q) /\ spans[q][1].endCalls = 1
    /\ req[g].pc = "done" /\ spans[g][1].endCalls = 1

\* C20: the gauge ordersInProgress equals the number of create-order
\* requests that have entered the handler and not yet run finally, and is
\* never negative.
C20_GaugeCountsInFlight ==
  /\ ordersInProgress = Cardinality({r \in Creates : Waiting(r)})
  /\ ordersInProgress >= 0

C20_Witness ==
  /\ ordersInProgress = MaxCreates
  /\ \A r \in Creates : Waiting(r)

====
